---- MODULE Spec2Model ----
(***************************************************************************)
(* State-machine model of the streaming inference service:                 *)
(*   app/tasks.py            run_inference_job, the WebSocket registry      *)
(*   app/routes/download.py  download_job                                   *)
(*   app/routes/ws.py        websocket_endpoint                             *)
(*   app/utils/metrics.py    compute_metrics                                *)
(* The service runs on one asyncio event loop: a coroutine is atomic        *)
(* between two awaits, so every action below is the code from one await to  *)
(* the next, named after the source line of the call it performs.           *)
(***************************************************************************)
EXTENDS Integers, Sequences, FiniteSets, TLC

\* ------------------------------------------------------------------ bounds
MaxFrames == 2          \* most frames the video source yields, and largest probed count
MaxFaults == 1          \* most Redis calls of the pipeline that raise
MaxTicks == 2           \* most advances of the wall clock
TickSeconds == 900      \* seconds the wall clock advances at once
MaxTexts == 1           \* most texts one client sends over its connection
MaxDuration == 2        \* longest time one stage takes on one frame, in seconds

\* --------------------------------------------------------------- constants
REDIS_TTL_SECONDS == 1800
DEFAULT_FPS == 25

JOB == "abc123"                     \* the job id the modelled pipeline runs for
JobIds == {JOB, "other"}            \* job ids an observer may ask for
Sockets == {"ws1", "ws2"}           \* WebSocket connections
Calls == {"d1", "d2"}               \* download requests
MODEL == "yolov8n"                  \* model_name of the job

\* ------------------------------------------------------------------- state
VARIABLES
    now,          \* wall clock (time.time()), in seconds
    meta,         \* Redis hash job:<id>:meta, field -> stored bytes; empty = no key
    metaExp,      \* expiry deadline of the meta key: {} (none) or {deadline}
    frames,       \* Redis list job:<id>:frames; empty = no key
    framesExp,    \* expiry deadline of the frames key
    run,          \* locals and position of run_inference_job
    pub,          \* the send_ws_* call in progress: snapshot still to serve, payload
    WS_REGISTRY,  \* job id -> set of registered connections
    ws,           \* per connection: position of websocket_endpoint, job id, liveness,
                  \* whether the client has stopped reading, and (history) how many
                  \* events had been published when it registered
    inbox,        \* per connection: texts the client received, in order
    dl,           \* per download request: locals and position of download_job, what
                  \* the encoder was given, and (history) the calls that had succeeded
                  \* when it was issued, the appends made and whether the list was
                  \* still whole when it read the frames
    scratch,      \* TMP_DIR/dl_<job>: materialised frame files, index -> bytes
    outVideo,     \* TMP_DIR/dl_<job>/<job>.mp4: the images muxed in, <<>> = no file
    faults,       \* Redis calls that raised so far
    ticks,        \* clock advances so far
    published,    \* history: every event handed to send_ws_message / send_ws_frame_b64
    hist          \* history: what went wrong in the job, the statuses written, the
                  \* frames appended, when each key was last written, which keys
                  \* were deleted or expired

vars == <<now, meta, metaExp, frames, framesExp, run, pub, WS_REGISTRY, ws, inbox,
          dl, scratch, outVideo, faults, ticks, published, hist>>

cacheVars == <<meta, metaExp, frames, framesExp>>
obsVars == <<WS_REGISTRY, ws, inbox>>
dlVars == <<dl, scratch, outVideo>>

\* ----------------------------------------------------------- byte encodings
\* Decimal text of a natural number, as the Redis client stores an int and as
\* str() renders it: most significant digit first.
RECURSIVE str(_)
str(n) == IF n < 10 THEN <<n>> ELSE Append(str(n \div 10), n % 10)

\* int() of decimal text.
RECURSIVE int(_)
int(s) == IF Len(s) = 0 THEN 0
          ELSE 10 * int(SubSeq(s, 1, Len(s) - 1)) + s[Len(s)]

\* round(a / b) for b > 0, a >= 0: nearest integer, ties to even (Python round).
RoundDiv(a, b) ==
    LET q == a \div b
        r == a % b
    IN  IF 2 * r < b THEN q
        ELSE IF 2 * r > b THEN q + 1
        ELSE IF q % 2 = 0 THEN q ELSE q + 1

\* round(x, 2) of x = num / den * 100.0, in hundredths.
Pct(num, den) == RoundDiv(num * 10000, den)

\* json.dumps of an event; the client reads it back with loads.
dumps(message) == [json |-> message]
loads(text) == text.json

\* ------------------------------------------------------------ Redis commands
NoKey == [f \in {} |-> <<>>]

\* HSET key mapping: set the given fields, keep the others.
HSet(h, mapping) ==
    [f \in DOMAIN h \cup DOMAIN mapping |->
        IF f \in DOMAIN mapping THEN mapping[f] ELSE h[f]]

\* Mutant of RPush: the value goes to the head of the list (LPUSH).
RPush_AtHead(list, value) == <<value>> \o list

\* RPUSH key value: append at the tail.
RPush(list, value) == Append(list, value)

\* LRANGE key start stop, with Redis' negative indices counted from the tail.
LRange(list, start, stop) ==
    LET n == Len(list)
        a == IF start < 0 THEN (IF n + start < 0 THEN 0 ELSE n + start) ELSE start
        b == IF stop < 0 THEN n + stop ELSE (IF stop >= n THEN n - 1 ELSE stop)
    IN  IF a > b \/ a >= n THEN <<>> ELSE SubSeq(list, a + 1, b + 1)

\* EXPIRE key seconds: a deadline for an existing key, nothing for a missing one.
Expire(exists, exp, seconds) == IF exists THEN {now + seconds} ELSE exp

MetaExists == DOMAIN meta # {}
FramesExists == Len(frames) > 0

\* The Redis call about to be made raises (connection lost, server error).
CacheRaises ==
    /\ faults < MaxFaults
    /\ faults' = faults + 1

\* --------------------------------------------------------- frames and events
\* cap.read(): the i-th frame of the source.
RawFrame(i) == [idx |-> i, annotated |-> FALSE]
\* runner.predict(frame): a copy of the frame with the boxes drawn.
Predict(frame) == [result_frame |-> [frame EXCEPT !.annotated = TRUE]]
\* cv2.imencode(".jpg", frame)[1].tobytes()
JpgBytes(frame) == [jpg |-> frame]
\* base64.b64encode(jpg_bytes).decode("ascii")
B64(bytes) == [b64 |-> bytes]

\* ------------------------------------------------------------------- metrics
Sum(s) == LET RECURSIVE S(_)
              S(i) == IF i = 0 THEN 0 ELSE s[i] + S(i - 1)
          IN  S(Len(s))

\* compute_metrics: rates in 1/10000 per second, stage means in microseconds.
compute_metrics(t_preprocess, t_infer, t_post, start_ts, end_ts, total_frames, model_name) ==
    LET total_time == end_ts - start_ts
        mean(t) == IF Len(t) > 0 THEN RoundDiv(Sum(t) * 1000000, Len(t)) ELSE 0
    IN  [model |-> model_name,
         total_frames |-> total_frames,
         total_time_s |-> total_time,
         avg_fps |-> IF total_time > 0 THEN RoundDiv(total_frames * 10000, total_time) ELSE 0,
         avg_preprocess_ms |-> mean(t_preprocess),
         avg_infer_ms |-> mean(t_infer),
         avg_postprocess_ms |-> mean(t_post)]


\* ------------------------------------------------------------ initial state
NoMetrics == compute_metrics(<<>>, <<>>, <<>>, 0, 0, 0, MODEL)

Init ==
    /\ now = 0
    /\ meta = NoKey
    /\ metaExp = {}
    /\ frames = <<>>
    /\ framesExp = {}
    /\ run = [pc |-> "L72", total_frames |-> 0, frame_idx |-> 0, processed |-> 0,
              pos |-> 0, t_pre |-> <<>>, t_inf |-> <<>>, t_post |-> <<>>, start_ts |-> 0, end_ts |-> 0,
              frame |-> RawFrame(0), res |-> [result_frame |-> RawFrame(0)],
              jpg_bytes |-> JpgBytes(RawFrame(0)), exc |-> "", cap |-> "none",
              metrics |-> NoMetrics]
    /\ pub = [active |-> FALSE, conns |-> {}, text |-> dumps([type |-> "none"])]
    /\ WS_REGISTRY = [j \in {} |-> {}]
    /\ ws = [w \in Sockets |-> [pc |-> "new", job_id |-> JOB, open |-> TRUE, texts |-> 0,
                               since |-> 0, stalled |-> FALSE]]
    /\ inbox = [w \in Sockets |-> <<>>]
    /\ dl = [d \in Calls |-> [pc |-> "new", meta |-> NoKey, frames |-> <<>>,
                              fps |-> DEFAULT_FPS, result |-> "none",
                              encoded |-> <<>>, after |-> {}, pushed |-> <<>>,
                              intact |-> TRUE]]
    /\ scratch = [i \in {} |-> <<>>]
    /\ outVideo = <<>>
    /\ faults = 0
    /\ ticks = 0
    /\ published = <<>>
    /\ hist = [fatal |-> "none", predictFailed |-> {}, encodeFailed |-> {},
               pushed |-> <<>>, lostFrames |-> FALSE, lostMeta |-> FALSE,
               statusWritten |-> <<>>, metaWriteAt |-> 0, framesWriteAt |-> 0]

\* Timing samples of one stage: at most one per frame, each zero or long.
Timings == UNION {[1..n -> {0, MaxDuration}] : n \in 0..MaxFrames}

\* run_inference_job about to leave its frame loop (tasks.py:172) with any
\* timing lists, any count of processed frames, and a clock that may have stood
\* still or been set back since start_ts was taken: the arguments of
\* compute_metrics.
InitMetrics ==
    /\ now \in {0, TickSeconds}
    /\ meta = [model |-> MODEL, status |-> "running"]
    /\ metaExp = {REDIS_TTL_SECONDS}
    /\ frames = <<>>
    /\ framesExp = {}
    /\ \E pre \in Timings, inf \in Timings, post \in Timings,
          start \in {0, TickSeconds}, n \in 0..MaxFrames :
            run = [pc |-> "L173", total_frames |-> MaxFrames, frame_idx |-> Len(inf),
                   pos |-> Len(inf), processed |-> n, t_pre |-> pre, t_inf |-> inf, t_post |-> post,
                   start_ts |-> start, end_ts |-> 0,
                   frame |-> RawFrame(0), res |-> [result_frame |-> RawFrame(0)],
                   jpg_bytes |-> JpgBytes(RawFrame(0)), exc |-> "", cap |-> "open",
                   metrics |-> NoMetrics]
    /\ pub = [active |-> FALSE, conns |-> {}, text |-> dumps([type |-> "none"])]
    /\ WS_REGISTRY = [j \in {} |-> {}]
    /\ ws = [w \in Sockets |-> [pc |-> "new", job_id |-> JOB, open |-> TRUE, texts |-> 0,
                               since |-> 0, stalled |-> FALSE]]
    /\ inbox = [w \in Sockets |-> <<>>]
    /\ dl = [d \in Calls |-> [pc |-> "new", meta |-> NoKey, frames |-> <<>>,
                              fps |-> DEFAULT_FPS, result |-> "none",
                              encoded |-> <<>>, after |-> {}, pushed |-> <<>>,
                              intact |-> TRUE]]
    /\ scratch = [i \in {} |-> <<>>]
    /\ outVideo = <<>>
    /\ faults = 0
    /\ ticks = 0
    /\ published = <<>>
    /\ hist = [fatal |-> "none", predictFailed |-> {}, encodeFailed |-> {},
               pushed |-> <<>>, lostFrames |-> FALSE, lostMeta |-> FALSE,
               statusWritten |-> <<"running">>, metaWriteAt |-> 0, framesWriteAt |-> 0]

\* ------------------------------------------------------- run_inference_job
Goto(label) == run' = [run EXCEPT !.pc = label]

\* An exception nothing catches ends the task.
Raise == run' = [run EXCEPT !.pc = "raised", !.exc = "redis error",
                            !.cap = IF @ = "open" THEN "released" ELSE @]

\* Write of the status field, with the history of statuses written.
WriteStatus(mapping) ==
    /\ meta' = HSet(meta, mapping)
    /\ hist' = [hist EXCEPT !.statusWritten = Append(@, mapping.status),
                            !.metaWriteAt = now]

\* tasks.py:72  hset(meta_key, {model, status: running})
L72 ==
    /\ run.pc = "L72"
    /\ \/ /\ WriteStatus([model |-> MODEL, status |-> "running"])
          /\ Goto("L73")
          /\ UNCHANGED faults
       \/ /\ CacheRaises
          /\ Raise
          /\ UNCHANGED <<meta, hist>>
    /\ UNCHANGED <<now, metaExp, frames, framesExp, pub, obsVars, dlVars, ticks, published>>

\* tasks.py:73  expire(meta_key, REDIS_TTL_SECONDS)
L73 ==
    /\ run.pc = "L73"
    /\ \/ /\ metaExp' = Expire(MetaExists, metaExp, REDIS_TTL_SECONDS)
          /\ Goto("L74")
          /\ UNCHANGED faults
       \/ /\ CacheRaises
          /\ Raise
          /\ UNCHANGED metaExp
    /\ UNCHANGED <<now, meta, frames, framesExp, pub, obsVars, dlVars, ticks, published, hist>>

\* tasks.py:74  expire(frames_key, REDIS_TTL_SECONDS)
L74 ==
    /\ run.pc = "L74"
    /\ \/ /\ framesExp' = Expire(FramesExists, framesExp, REDIS_TTL_SECONDS)
          /\ Goto("L77")
          /\ UNCHANGED faults
       \/ /\ CacheRaises
          /\ Raise
          /\ UNCHANGED framesExp
    /\ UNCHANGED <<now, meta, metaExp, frames, pub, obsVars, dlVars, ticks, published, hist>>

\* tasks.py:76-80  read_video_metadata: the probed frame count, or RuntimeError.
\* (fps is read too and never used again.)
L77 ==
    /\ run.pc = "L77"
    /\ \/ /\ \E total \in 0..MaxFrames :
                run' = [run EXCEPT !.pc = "L91", !.total_frames = total]
          /\ UNCHANGED hist
       \/ /\ run' = [run EXCEPT !.pc = "L81", !.exc = "Cannot open video for metadata"]
          /\ hist' = [hist EXCEPT !.fatal = "probe"]
    /\ UNCHANGED <<now, cacheVars, pub, obsVars, dlVars, faults, ticks, published>>

\* tasks.py:81, 111, 120  hset(meta_key, {status: failed, error}) of an early exit
FailedWrite(at, next) ==
    /\ run.pc = at
    /\ \/ /\ WriteStatus([status |-> "failed", error |-> run.exc])
          /\ Goto(next)
          /\ UNCHANGED faults
       \/ /\ CacheRaises
          /\ Raise
          /\ UNCHANGED <<meta, hist>>
    /\ UNCHANGED <<now, metaExp, frames, framesExp, pub, obsVars, dlVars, ticks, published>>

L81 == FailedWrite("L81", "L82")
L111 == FailedWrite("L111", "L112")
L120 == FailedWrite("L120", "L121")

\* tasks.py:90-100  colour lookup: redis.exists / redis.get; any failure is swallowed
\* and leaves the default palette. No colours are saved in this model.
L91 ==
    /\ run.pc = "L91"
    /\ Goto("L108")
    /\ \/ UNCHANGED faults
       \/ CacheRaises
    /\ UNCHANGED <<now, cacheVars, pub, obsVars, dlVars, ticks, published, hist>>

\* tasks.py:105-113  ModelRunner(model_spec)
L108 ==
    /\ run.pc = "L108"
    /\ \/ /\ Goto("L118")
          /\ UNCHANGED hist
       \/ /\ run' = [run EXCEPT !.pc = "L111", !.exc = "weights not found"]
          /\ hist' = [hist EXCEPT !.fatal = "load"]
    /\ UNCHANGED <<now, cacheVars, pub, obsVars, dlVars, faults, ticks, published>>

\* tasks.py:118-127  cv2.VideoCapture, isOpened, start_ts and the loop counters
L118 ==
    /\ run.pc = "L118"
    /\ \/ /\ run' = [run EXCEPT !.pc = "L131", !.cap = "open", !.pos = 0, !.start_ts = now,
                                !.t_pre = <<>>, !.t_inf = <<>>, !.t_post = <<>>,
                                !.processed = 0, !.frame_idx = 0]
          /\ UNCHANGED hist
       \/ /\ run' = [run EXCEPT !.pc = "L120", !.exc = "Cannot open video"]
          /\ hist' = [hist EXCEPT !.fatal = "open"]
    /\ UNCHANGED <<now, cacheVars, pub, obsVars, dlVars, faults, ticks, published>>

\* tasks.py:131-133  cap.read(): the next frame of the source, or its end
L131 ==
    /\ run.pc = "L131"
    /\ \/ /\ run.pos < MaxFrames
          /\ run' = [run EXCEPT !.pc = "L137", !.frame = RawFrame(run.pos), !.pos = @ + 1]
       \/ Goto("L173")
    /\ UNCHANGED <<now, cacheVars, pub, obsVars, dlVars, faults, ticks, published, hist>>

\* Mutant of L137: a frame whose inference raises is skipped instead of falling
\* back to the raw frame.
L137_SkipsFrame ==
    /\ run.pc = "L137"
    /\ \/ /\ run' = [run EXCEPT !.pc = "L144", !.res = Predict(run.frame),
                                !.t_inf = Append(@, now - now)]
          /\ UNCHANGED hist
       \/ /\ run' = [run EXCEPT !.pc = "L131", !.frame_idx = @ + 1]
          /\ hist' = [hist EXCEPT !.predictFailed = @ \cup {run.frame.idx}]
    /\ UNCHANGED <<now, meta, metaExp, frames, framesExp, pub, WS_REGISTRY, ws, inbox,
                   dl, scratch, outVideo, faults, ticks, published>>

\* tasks.py:135-141  runner.predict, falling back to the raw frame when it raises
L137 ==
    /\ run.pc = "L137"
    /\ \/ /\ run' = [run EXCEPT !.pc = "L144", !.res = Predict(run.frame),
                                !.t_inf = Append(@, now - now)]
          /\ UNCHANGED hist
       \/ /\ run' = [run EXCEPT !.pc = "L144", !.res = [result_frame |-> run.frame],
                                !.t_inf = Append(@, now - now)]
          /\ hist' = [hist EXCEPT !.predictFailed = @ \cup {run.frame.idx}]
    /\ UNCHANGED <<now, cacheVars, pub, obsVars, dlVars, faults, ticks, published>>

\* Mutant of L144: a frame that fails to encode is skipped without advancing
\* frame_idx.
L144_KeepsIndex ==
    /\ run.pc = "L144"
    /\ \/ /\ run' = [run EXCEPT !.pc = "L150", !.jpg_bytes = JpgBytes(run.res.result_frame)]
          /\ UNCHANGED hist
       \/ /\ run' = [run EXCEPT !.pc = "L131"]
          /\ hist' = [hist EXCEPT !.encodeFailed = @ \cup {run.frame.idx}]
    /\ UNCHANGED <<now, meta, metaExp, frames, framesExp, pub, WS_REGISTRY, ws, inbox,
                   dl, scratch, outVideo, faults, ticks, published>>

\* tasks.py:143-149  cv2.imencode; a failure skips the frame
L144 ==
    /\ run.pc = "L144"
    /\ \/ /\ run' = [run EXCEPT !.pc = "L150", !.jpg_bytes = JpgBytes(run.res.result_frame)]
          /\ UNCHANGED hist
       \/ /\ run' = [run EXCEPT !.pc = "L131", !.frame_idx = @ + 1]
          /\ hist' = [hist EXCEPT !.encodeFailed = @ \cup {run.frame.idx}]
    /\ UNCHANGED <<now, cacheVars, pub, obsVars, dlVars, faults, ticks, published>>

\* An exception inside the frame loop: caught at tasks.py:168
Caught == run' = [run EXCEPT !.pc = "L169", !.exc = "redis error"]

\* tasks.py:150  rpush(frames_key, jpg_bytes)
L150 ==
    /\ run.pc = "L150"
    /\ \/ /\ frames' = RPush(frames, run.jpg_bytes)
          /\ hist' = [hist EXCEPT !.pushed = Append(@, run.jpg_bytes),
                                  !.framesWriteAt = now]
          /\ Goto("L151")
          /\ UNCHANGED faults
       \/ /\ CacheRaises
          /\ Caught
          /\ hist' = [hist EXCEPT !.fatal = "cache"]
          /\ UNCHANGED frames
    /\ UNCHANGED <<now, meta, metaExp, framesExp, pub, obsVars, dlVars, ticks, published>>

\* tasks.py:151  expire(frames_key, REDIS_TTL_SECONDS)
L151 ==
    /\ run.pc = "L151"
    /\ \/ /\ framesExp' = Expire(FramesExists, framesExp, REDIS_TTL_SECONDS)
          /\ Goto("L152")
          /\ UNCHANGED <<faults, hist>>
       \/ /\ CacheRaises
          /\ Caught
          /\ hist' = [hist EXCEPT !.fatal = "cache"]
          /\ UNCHANGED framesExp
    /\ UNCHANGED <<now, meta, metaExp, frames, pub, obsVars, dlVars, ticks, published>>

\* tasks.py:152  hset(meta_key, {processed_frames, total_frames})
L152 ==
    /\ run.pc = "L152"
    /\ \/ /\ meta' = HSet(meta, [processed_frames |-> str(run.frame_idx + 1),
                                 total_frames |-> str(run.total_frames)])
          /\ hist' = [hist EXCEPT !.metaWriteAt = now]
          /\ Goto("L153")
          /\ UNCHANGED faults
       \/ /\ CacheRaises
          /\ Caught
          /\ hist' = [hist EXCEPT !.fatal = "cache"]
          /\ UNCHANGED meta
    /\ UNCHANGED <<now, metaExp, frames, framesExp, pub, obsVars, dlVars, ticks, published>>

\* tasks.py:153  expire(meta_key, REDIS_TTL_SECONDS)
L153 ==
    /\ run.pc = "L153"
    /\ \/ /\ metaExp' = Expire(MetaExists, metaExp, REDIS_TTL_SECONDS)
          /\ Goto("L156")
          /\ UNCHANGED <<faults, hist>>
       \/ /\ CacheRaises
          /\ Caught
          /\ hist' = [hist EXCEPT !.fatal = "cache"]
          /\ UNCHANGED metaExp
    /\ UNCHANGED <<now, meta, frames, framesExp, pub, obsVars, dlVars, ticks, published>>

\* tasks.py:164-166  frame_idx += 1; processed += 1; sleep(0)
L166 ==
    /\ run.pc = "L166"
    /\ run' = [run EXCEPT !.pc = "L131", !.frame_idx = @ + 1, !.processed = @ + 1]
    /\ UNCHANGED <<now, cacheVars, pub, obsVars, dlVars, faults, ticks, published, hist>>

\* tasks.py:168-169  except Exception: hset(meta_key, {status: failed, error})
L169 == FailedWrite("L169", "L170")

\* tasks.py:172-176  finally: cap.release(); end_ts; compute_metrics
L173 ==
    /\ run.pc = "L173"
    /\ run' = [run EXCEPT !.pc = "L178", !.cap = "released", !.end_ts = now,
                          !.metrics = compute_metrics(run.t_pre, run.t_inf, run.t_post,
                                                      run.start_ts, now, run.processed,
                                                      MODEL)]
    /\ UNCHANGED <<now, cacheVars, pub, obsVars, dlVars, faults, ticks, published, hist>>

\* The metrics as written to the hash: {k: str(v) for k, v in metrics.items()}
MetricsText(metrics) ==
    [k \in DOMAIN metrics |-> IF k = "model" THEN metrics[k] ELSE str(metrics[k])]

\* The mapping of tasks.py:180-187; a later key of the dict display replaces an
\* earlier one, so the metrics' model and total_frames are the ones stored.
DoneMapping ==
    HSet([status |-> "done",
          processed_frames |-> str(run.processed),
          total_frames |-> str(run.total_frames),
          start_ts |-> str(run.start_ts),
          end_ts |-> str(run.end_ts)],
         MetricsText(run.metrics))

\* tasks.py:178-188  hset(meta_key, {status: done, counters, timestamps, metrics})
L178 ==
    /\ run.pc = "L178"
    /\ \/ /\ WriteStatus(DoneMapping)
          /\ Goto("L189")
          /\ UNCHANGED faults
       \/ /\ CacheRaises
          /\ Raise
          /\ UNCHANGED <<meta, hist>>
    /\ UNCHANGED <<now, metaExp, frames, framesExp, pub, obsVars, dlVars, ticks, published>>

\* tasks.py:189  expire(meta_key, REDIS_TTL_SECONDS)
L189 ==
    /\ run.pc = "L189"
    /\ \/ /\ metaExp' = Expire(MetaExists, metaExp, REDIS_TTL_SECONDS)
          /\ Goto("L190")
          /\ UNCHANGED faults
       \/ /\ CacheRaises
          /\ Raise
          /\ UNCHANGED metaExp
    /\ UNCHANGED <<now, meta, frames, framesExp, pub, obsVars, dlVars, ticks, published, hist>>

\* tasks.py:190  expire(frames_key, REDIS_TTL_SECONDS)
L190 ==
    /\ run.pc = "L190"
    /\ \/ /\ framesExp' = Expire(FramesExists, framesExp, REDIS_TTL_SECONDS)
          /\ Goto("L191")
          /\ UNCHANGED faults
       \/ /\ CacheRaises
          /\ Raise
          /\ UNCHANGED framesExp
    /\ UNCHANGED <<now, meta, metaExp, frames, pub, obsVars, dlVars, ticks, published, hist>>


\* ------------------------------------------- send_ws_message, send_ws_frame_b64
SendPcs == {"L82", "L112", "L121", "L156", "L159", "L170", "L191"}

\* Mutant of EventAt: the progress event carries the zero-based frame index.
EventAt_ZeroBasedProgress(pc) ==
    CASE pc = "L82" -> [type |-> "error", message |-> <<run.exc>>]
      [] pc = "L112" -> [type |-> "error", message |-> <<"Model load failed: ", run.exc>>]
      [] pc = "L121" -> [type |-> "error", message |-> <<"Cannot open video">>]
      [] pc = "L156" -> [type |-> "frame", frame |-> run.frame_idx, data |-> B64(run.jpg_bytes)]
      [] pc = "L159" -> [type |-> "progress", frame |-> run.frame_idx,
                         total_frames |-> run.total_frames,
                         pct |-> IF run.total_frames # 0
                                 THEN Pct(run.frame_idx, run.total_frames) ELSE 0]
      [] pc = "L170" -> [type |-> "error", message |-> <<run.exc>>]
      [] pc = "L191" -> [type |-> "done", metrics |-> run.metrics]

\* The event each call site hands over (tasks.py:82, 112, 121, 156, 159-162, 170, 191).
\* A message text is the sequence of its parts.
EventAt(pc) ==
    CASE pc = "L82" -> [type |-> "error", message |-> <<run.exc>>]
      [] pc = "L112" -> [type |-> "error", message |-> <<"Model load failed: ", run.exc>>]
      [] pc = "L121" -> [type |-> "error", message |-> <<"Cannot open video">>]
      [] pc = "L156" -> [type |-> "frame", frame |-> run.frame_idx, data |-> B64(run.jpg_bytes)]
      [] pc = "L159" -> [type |-> "progress", frame |-> run.frame_idx + 1,
                         total_frames |-> run.total_frames,
                         pct |-> IF run.total_frames # 0
                                 THEN Pct(run.frame_idx + 1, run.total_frames) ELSE 0]
      [] pc = "L170" -> [type |-> "error", message |-> <<run.exc>>]
      [] pc = "L191" -> [type |-> "done", metrics |-> run.metrics]

\* Mutant of AfterSend: no return after the error event of a source that does
\* not open; the task goes on into the frame loop.
AfterSend_NoReturn(pc) ==
    CASE pc = "L156" -> "L159"
      [] pc = "L159" -> "L166"
      [] pc = "L170" -> "L173"
      [] pc = "L121" -> "L131"
      [] OTHER -> "returned"

\* Where the caller goes on when the call returns.
AfterSend(pc) ==
    CASE pc = "L156" -> "L159"
      [] pc = "L159" -> "L166"
      [] pc = "L170" -> "L173"
      [] OTHER -> "returned"

\* WS_REGISTRY.get(job_id, [])
Conns(job_id) == IF job_id \in DOMAIN WS_REGISTRY THEN WS_REGISTRY[job_id] ELSE {}

\* Mutant of SendBegin: the lookup leaves an empty entry for a job id that has
\* none (setdefault instead of get).
SendBegin_CreatesEntry ==
    /\ run.pc \in SendPcs
    /\ ~pub.active
    /\ published' = Append(published, EventAt(run.pc))
    /\ \/ /\ Conns(JOB) = {}
          /\ Goto(AfterSend(run.pc))
          /\ WS_REGISTRY' = [j \in DOMAIN WS_REGISTRY \cup {JOB} |-> Conns(j)]
          /\ UNCHANGED pub
       \/ /\ Conns(JOB) # {}
          /\ pub' = [active |-> TRUE, conns |-> Conns(JOB), text |-> dumps(EventAt(run.pc))]
          /\ UNCHANGED <<run, WS_REGISTRY>>
    /\ UNCHANGED <<now, meta, metaExp, frames, framesExp, ws, inbox, dl, scratch, outVideo,
                   faults, ticks, hist>>

\* tasks.py:36-39, 48-51  snapshot the connections; return at once when there are none
SendBegin ==
    /\ run.pc \in SendPcs
    /\ ~pub.active
    /\ published' = Append(published, EventAt(run.pc))
    /\ \/ /\ Conns(JOB) = {}
          /\ Goto(AfterSend(run.pc))
          /\ UNCHANGED pub
       \/ /\ Conns(JOB) # {}
          /\ pub' = [active |-> TRUE, conns |-> Conns(JOB), text |-> dumps(EventAt(run.pc))]
          /\ UNCHANGED run
    /\ UNCHANGED <<now, cacheVars, obsVars, dlVars, faults, ticks, hist>>

\* Mutant of SendOne: the loop runs over the registry's own set, so a connection
\* registered during the publish is served too.
SendOne_LiveSet(w) ==
    /\ pub.active
    /\ w \in pub.conns \cup Conns(JOB)
    /\ ~ws[w].open \/ ~ws[w].stalled
    /\ \/ /\ ws[w].open
          /\ inbox' = [inbox EXCEPT ![w] = Append(@, pub.text)]
       \/ /\ ~ws[w].open
          /\ UNCHANGED inbox
    /\ \/ /\ pub.conns \ {w} = {}
          /\ pub' = [pub EXCEPT !.active = FALSE, !.conns = {}]
          /\ Goto(AfterSend(run.pc))
       \/ /\ pub.conns \ {w} # {}
          /\ pub' = [pub EXCEPT !.conns = @ \ {w}]
          /\ UNCHANGED run
    /\ UNCHANGED <<now, meta, metaExp, frames, framesExp, WS_REGISTRY, ws, dl, scratch,
                   outVideo, faults, ticks, published, hist>>

\* Mutant of SendOne: a send that raises ends the publish; the connections not
\* yet served get nothing.
SendOne_FailureAborts(w) ==
    /\ pub.active
    /\ w \in pub.conns
    /\ ~ws[w].open \/ ~ws[w].stalled
    /\ \/ /\ ws[w].open
          /\ inbox' = [inbox EXCEPT ![w] = Append(@, pub.text)]
          /\ \/ /\ pub.conns = {w}
                /\ pub' = [pub EXCEPT !.active = FALSE, !.conns = {}]
                /\ Goto(AfterSend(run.pc))
             \/ /\ pub.conns # {w}
                /\ pub' = [pub EXCEPT !.conns = @ \ {w}]
                /\ UNCHANGED run
       \/ /\ ~ws[w].open
          /\ UNCHANGED inbox
          /\ pub' = [pub EXCEPT !.active = FALSE, !.conns = {}]
          /\ Goto(AfterSend(run.pc))
    /\ UNCHANGED <<now, meta, metaExp, frames, framesExp, WS_REGISTRY, ws, dl, scratch,
                   outVideo, faults, ticks, published, hist>>

\* tasks.py:40-44, 52-56  ws.send_text for one connection of the snapshot; a send
\* that raises is swallowed, and the loop waits for the send to a client that
\* has stopped reading
SendOne(w) ==
    /\ pub.active
    /\ w \in pub.conns
    /\ ~ws[w].open \/ ~ws[w].stalled
    /\ \/ /\ ws[w].open
          /\ inbox' = [inbox EXCEPT ![w] = Append(@, pub.text)]
       \/ /\ ~ws[w].open
          /\ UNCHANGED inbox
    /\ \/ /\ pub.conns = {w}
          /\ pub' = [pub EXCEPT !.active = FALSE, !.conns = {}]
          /\ Goto(AfterSend(run.pc))
       \/ /\ pub.conns # {w}
          /\ pub' = [pub EXCEPT !.conns = @ \ {w}]
          /\ UNCHANGED run
    /\ UNCHANGED <<now, cacheVars, WS_REGISTRY, ws, dlVars, faults, ticks, published, hist>>

\* ------------------------------------------------------------- the registry
\* tasks.py:22-25
register_ws(job_id, w) ==
    [j \in DOMAIN WS_REGISTRY \cup {job_id} |->
        IF j = job_id THEN Conns(job_id) \cup {w} ELSE WS_REGISTRY[j]]

\* Mutant of unregister_ws: the job's entry stays when its last connection leaves.
unregister_ws_KeepsEmpty(job_id, w) ==
    IF job_id \in DOMAIN WS_REGISTRY
    THEN [WS_REGISTRY EXCEPT ![job_id] = @ \ {w}]
    ELSE WS_REGISTRY

\* tasks.py:28-32
unregister_ws(job_id, w) ==
    IF job_id \in DOMAIN WS_REGISTRY
    THEN IF WS_REGISTRY[job_id] \ {w} = {}
         THEN [j \in DOMAIN WS_REGISTRY \ {job_id} |-> WS_REGISTRY[j]]
         ELSE [WS_REGISTRY EXCEPT ![job_id] = @ \ {w}]
    ELSE WS_REGISTRY

\* ------------------------------------------------------- websocket_endpoint
INFO_CONNECTED == dumps([type |-> "info", message |-> <<"connected">>])
INFO_DOWNLOAD == dumps([type |-> "info", message |-> <<"Download requested">>])

\* ws.py:9-10  accept, register_ws
WsAccept(w, job_id) ==
    /\ ws[w].pc = "new"
    /\ ws' = [ws EXCEPT ![w] = [ws[w] EXCEPT !.pc = "L13", !.job_id = job_id,
                                            !.since = Len(published)]]
    /\ WS_REGISTRY' = register_ws(job_id, w)
    /\ UNCHANGED <<now, cacheVars, run, pub, inbox, dlVars, faults, ticks, published, hist>>

\* ws.py:13  the welcome message; ws.py:27-32 when the send raises
WsWelcome(w) ==
    /\ ws[w].pc = "L13"
    /\ \/ /\ ws[w].open
          /\ ~ws[w].stalled
          /\ inbox' = [inbox EXCEPT ![w] = Append(@, INFO_CONNECTED)]
          /\ ws' = [ws EXCEPT ![w].pc = "L16"]
          /\ UNCHANGED WS_REGISTRY
       \/ /\ ~ws[w].open
          /\ WS_REGISTRY' = unregister_ws(ws[w].job_id, w)
          /\ ws' = [ws EXCEPT ![w].pc = "closed"]
          /\ UNCHANGED inbox
    /\ UNCHANGED <<now, cacheVars, run, pub, dlVars, faults, ticks, published, hist>>

\* ws.py:16-24  a text from the client; {"action": "download"} is answered, any
\* other text changes nothing
WsReceive(w) ==
    /\ ws[w].pc = "L16"
    /\ ws[w].open
    /\ ~ws[w].stalled
    /\ ws[w].texts < MaxTexts
    /\ ws' = [ws EXCEPT ![w].texts = @ + 1]
    /\ inbox' = [inbox EXCEPT ![w] = Append(@, INFO_DOWNLOAD)]
    /\ UNCHANGED <<now, cacheVars, run, pub, WS_REGISTRY, dlVars, faults, ticks,
                   published, hist>>

\* The client goes away: every later send_text and receive_text raises.
WsDrop(w) ==
    /\ ws[w].pc \in {"L13", "L16"}
    /\ ws[w].open
    /\ ws' = [ws EXCEPT ![w].open = FALSE]
    /\ UNCHANGED <<now, cacheVars, run, pub, WS_REGISTRY, inbox, dlVars, faults, ticks,
                   published, hist>>

\* The client stops reading while the connection stays up: a send_text to it
\* does not complete.
WsStall(w) ==
    /\ ws[w].pc \in {"L13", "L16"}
    /\ ws[w].open
    /\ ~ws[w].stalled
    /\ ws' = [ws EXCEPT ![w].stalled = TRUE]
    /\ UNCHANGED <<now, cacheVars, run, pub, WS_REGISTRY, inbox, dlVars, faults, ticks,
                   published, hist>>

\* ws.py:25-26  receive_text raises WebSocketDisconnect
WsDisconnect(w) ==
    /\ ws[w].pc = "L16"
    /\ ~ws[w].open
    /\ WS_REGISTRY' = unregister_ws(ws[w].job_id, w)
    /\ ws' = [ws EXCEPT ![w].pc = "closed"]
    /\ UNCHANGED <<now, cacheVars, run, pub, inbox, dlVars, faults, ticks, published, hist>>


\* -------------------------------------------------------------- download_job
\* download.py:18-20  hgetall(meta_key); 404 when the hash is empty
D18(d) ==
    /\ dl[d].pc = "new"
    /\ LET after == {e \in Calls : dl[e].result = "OK"}
       IN  IF DOMAIN meta = {}
           THEN dl' = [dl EXCEPT ![d].pc = "returned", ![d].result = "NotFound",
                                 ![d].after = after]
           ELSE dl' = [dl EXCEPT ![d].pc = "L23", ![d].meta = meta, ![d].after = after]
    /\ UNCHANGED <<now, cacheVars, run, pub, obsVars, scratch, outVideo, faults, ticks,
                   published, hist>>

\* download.py:31-35  frame_<i>.jpg for every frame read; files already in the
\* directory under other names stay
Materialise(files, read) ==
    [i \in DOMAIN files \cup (0 .. Len(read) - 1) |->
        IF i < Len(read) THEN read[i + 1] ELSE files[i]]

\* Mutant of D23: an empty frame list is reported like a missing job.
D23_NotFound(d) ==
    /\ dl[d].pc = "L23"
    /\ LET read == LRange(frames, 0, -1)
       IN  IF Len(read) = 0
           THEN /\ dl' = [dl EXCEPT ![d].pc = "returned", ![d].result = "NotFound",
                                    ![d].pushed = hist.pushed,
                                    ![d].intact = ~hist.lostFrames]
                /\ UNCHANGED scratch
           ELSE /\ dl' = [dl EXCEPT ![d].pc = "L57", ![d].frames = read,
                                    ![d].pushed = hist.pushed,
                                    ![d].intact = ~hist.lostFrames]
                /\ scratch' = Materialise(scratch, read)
    /\ UNCHANGED <<now, meta, metaExp, frames, framesExp, run, pub, WS_REGISTRY, ws, inbox,
                   outVideo, faults, ticks, published, hist>>

\* download.py:23-38  lrange(frames_key, 0, -1); 404 when empty; else write the
\* frame files and pick the frame rate
D23(d) ==
    /\ dl[d].pc = "L23"
    /\ LET read == LRange(frames, 0, -1)
       IN  IF Len(read) = 0
           THEN /\ dl' = [dl EXCEPT ![d].pc = "returned", ![d].result = "NoFrames",
                                    ![d].pushed = hist.pushed,
                                    ![d].intact = ~hist.lostFrames]
                /\ UNCHANGED scratch
           ELSE /\ dl' = [dl EXCEPT ![d].pc = "L57", ![d].frames = read,
                                    ![d].pushed = hist.pushed,
                                    ![d].intact = ~hist.lostFrames,
                                    ![d].fps = IF "fps" \in DOMAIN dl[d].meta
                                               THEN int(dl[d].meta["fps"])
                                               ELSE DEFAULT_FPS]
                /\ scratch' = Materialise(scratch, read)
    /\ UNCHANGED <<now, cacheVars, run, pub, obsVars, outVideo, faults, ticks,
                   published, hist>>

\* ffmpeg -i frame_%06d.jpg: the files numbered 0, 1, ... up to the first gap.
RECURSIVE ImageSequence(_, _)
ImageSequence(files, i) ==
    IF i \in DOMAIN files THEN <<files[i]>> \o ImageSequence(files, i + 1) ELSE <<>>

\* Mutant of D57: the cache is cleared whether or not the encoder succeeded.
D57_DeletesOnFailure(d) ==
    /\ dl[d].pc = "L57"
    /\ \/ /\ dl' = [dl EXCEPT ![d].pc = "L63", ![d].encoded = ImageSequence(scratch, 0)]
          /\ outVideo' = ImageSequence(scratch, 0)
          /\ UNCHANGED <<frames, framesExp>>
       \/ /\ dl' = [dl EXCEPT ![d].pc = "returned", ![d].result = "EncodeFailed"]
          /\ frames' = <<>>
          /\ framesExp' = {}
          /\ UNCHANGED outVideo
    /\ UNCHANGED <<now, meta, metaExp, run, pub, WS_REGISTRY, ws, inbox, scratch, faults,
                   ticks, published, hist>>

\* download.py:53-59  ffmpeg in a thread; a non-zero exit is a 500
D57(d) ==
    /\ dl[d].pc = "L57"
    /\ \/ /\ dl' = [dl EXCEPT ![d].pc = "L63", ![d].encoded = ImageSequence(scratch, 0)]
          /\ outVideo' = ImageSequence(scratch, 0)
       \/ /\ dl' = [dl EXCEPT ![d].pc = "returned", ![d].result = "EncodeFailed"]
          /\ UNCHANGED outVideo
    /\ UNCHANGED <<now, cacheVars, run, pub, obsVars, scratch, faults, ticks,
                   published, hist>>

\* download.py:63  delete(frames_key)
D63(d) ==
    /\ dl[d].pc = "L63"
    /\ frames' = <<>>
    /\ framesExp' = {}
    /\ hist' = [hist EXCEPT !.lostFrames = @ \/ FramesExists]
    /\ dl' = [dl EXCEPT ![d].pc = "L64"]
    /\ UNCHANGED <<now, meta, metaExp, run, pub, obsVars, scratch, outVideo, faults, ticks,
                   published>>

\* Mutant of D64: the metadata hash is left in the cache.
D64_KeepsMeta(d) ==
    /\ dl[d].pc = "L64"
    /\ dl' = [dl EXCEPT ![d].pc = "returned", ![d].result = "OK"]
    /\ UNCHANGED <<now, meta, metaExp, frames, framesExp, run, pub, WS_REGISTRY, ws, inbox,
                   scratch, outVideo, faults, ticks, published, hist>>

\* download.py:64-66  delete(meta_key); FileResponse
D64(d) ==
    /\ dl[d].pc = "L64"
    /\ meta' = NoKey
    /\ metaExp' = {}
    /\ hist' = [hist EXCEPT !.lostMeta = @ \/ MetaExists]
    /\ dl' = [dl EXCEPT ![d].pc = "returned", ![d].result = "OK"]
    /\ UNCHANGED <<now, frames, framesExp, run, pub, obsVars, scratch, outVideo, faults,
                   ticks, published>>

\* ----------------------------------------------------------------- the clock
Expired(exp, t) == \E deadline \in exp : deadline <= t

\* Time passes; Redis drops the keys whose deadline is reached.
Tick ==
    /\ ticks < MaxTicks
    /\ ticks' = ticks + 1
    /\ now' = now + TickSeconds
    /\ IF Expired(metaExp, now')
       THEN meta' = NoKey /\ metaExp' = {}
       ELSE UNCHANGED <<meta, metaExp>>
    /\ IF Expired(framesExp, now')
       THEN frames' = <<>> /\ framesExp' = {}
       ELSE UNCHANGED <<frames, framesExp>>
    /\ hist' = [hist EXCEPT !.lostMeta = @ \/ Expired(metaExp, now'),
                            !.lostFrames = @ \/ Expired(framesExp, now')]
    /\ UNCHANGED <<run, pub, obsVars, dlVars, faults, published>>

\* ------------------------------------------------------------ specifications
\* The steps of the job's own task.
Job ==
    \/ L72 \/ L73 \/ L74 \/ L77 \/ L81 \/ L91 \/ L108 \/ L111 \/ L118 \/ L120
    \/ L131 \/ L137 \/ L144 \/ L150 \/ L151 \/ L152 \/ L153 \/ L166 \/ L169
    \/ L173 \/ L178 \/ L189 \/ L190
    \/ SendBegin

Deliver == \E w \in Sockets : SendOne(w)

Observer(w) ==
    \/ \E j \in JobIds : WsAccept(w, j)
    \/ WsWelcome(w)
    \/ WsReceive(w)
    \/ WsDrop(w)
    \/ WsStall(w)
    \/ WsDisconnect(w)

Retrieval(d) == D18(d) \/ D23(d) \/ D57(d) \/ D63(d) \/ D64(d)

Next ==
    \/ Job
    \/ Deliver
    \/ \E w \in Sockets : Observer(w)
    \/ \E d \in Calls : Retrieval(d)
    \/ Tick

Spec == Init /\ [][Next]_vars

\* The job and one connection that listens to it: no retrieval, no clock.
Listener(w) == WsAccept(w, JOB) \/ WsWelcome(w) \/ WsDrop(w) \/ WsDisconnect(w)
NextJob == Job \/ Deliver \/ Listener("ws1")
SpecJob == Init /\ [][NextJob]_vars

\* The job and retrieval requests made one after the other, d1 then d2: nobody
\* listens, no clock.
InTurn(d) == d = "d1" \/ dl["d1"].pc = "returned"
NextRetrieval ==
    \/ Job
    \/ \E d \in Calls : (InTurn(d) /\ D18(d)) \/ D23(d) \/ D57(d) \/ D63(d) \/ D64(d)
SpecRetrieval == Init /\ [][NextRetrieval]_vars

\* The job and the clock: nobody listens, no retrieval.
NextTtl == Job \/ Tick
SpecTtl == Init /\ [][NextTtl]_vars

\* The job with a healthy Redis and two connections: ws1 listens to the job and
\* may go away, ws2 connects for any job id and stays. No retrieval, no clock.
NextPublish ==
    \/ Job /\ faults' = faults
    \/ Deliver
    \/ Listener("ws1")
    \/ \E j \in JobIds : WsAccept("ws2", j)
    \/ WsWelcome("ws2")
SpecPublish == Init /\ [][NextPublish]_vars

\* The job with a healthy Redis and one connection that listens to it and may
\* go away or stop reading. The event loop runs the job's task whenever it can
\* go on; what the client does is up to the client.
NextLive ==
    \/ Job /\ faults' = faults
    \/ Deliver
    \/ Listener("ws1")
    \/ WsStall("ws1")
SpecLive ==
    /\ Init
    /\ [][NextLive]_vars
    /\ WF_vars(Job /\ faults' = faults)
    /\ WF_vars(Deliver)

\* compute_metrics applied to every input of InitMetrics.
SpecMetrics == InitMetrics /\ [][L173]_vars

\* The job with a healthy Redis and retrieval requests that may overlap: each
\* is its own coroutine on the event loop. Nobody listens, no clock.
NextOverlap ==
    \/ Job /\ faults' = faults
    \/ \E d \in Calls : Retrieval(d)
SpecOverlap == Init /\ [][NextOverlap]_vars

\* The connection handlers alone, for any job id: no job runs, no retrieval, no
\* clock.
NextRegistry == \E w \in Sockets : Observer(w)
SpecRegistry == Init /\ [][NextRegistry]_vars


\* ------------------------------------------------------------------ claims
\* The status field of the metadata hash, "absent" when there is none.
Status == IF "status" \in DOMAIN meta THEN meta["status"] ELSE "absent"

\* The job's task has ended: it returned, or an exception ended it.
Ended == run.pc \in {"returned", "raised"}

\* The events a client received from the job: its texts without the "info" ones.
Events(texts) == SelectSeq(texts, LAMBDA t : loads(t).type # "info")
OfType(events, type) == SelectSeq(events, LAMBDA e : loads(e).type = type)

\* A connection that watches the whole job: registered for it before the first
\* event was published, still registered, never lost.
Steady(w) ==
    /\ ws[w].pc \in {"L13", "L16"}
    /\ ws[w].job_id = JOB
    /\ ws[w].since = 0
    /\ ws[w].open
    /\ ~ws[w].stalled

\* C1: the status written to the job metadata only moves running -> done or
\* running -> failed; once failed or done is written, no different status is
\* written after it.
C1_StatusOnlyForward ==
    LET w == hist.statusWritten
    IN  /\ \A i \in 1..Len(w) : w[i] = "running" => i = 1
        /\ \A i, j \in 1..Len(w) :
              (i < j /\ w[i] \in {"failed", "done"}) => w[j] = w[i]

\* C2: an observer registered for the whole job receives exactly one terminal
\* event, an error or a done, never both; after a fatal condition it is one
\* error and no done.
C2_ExactlyOneTerminal ==
    \A w \in Sockets :
        (run.pc = "returned" /\ Steady(w)) =>
            LET got == Events(inbox[w])
                errors == Len(OfType(got, "error"))
                dones == Len(OfType(got, "done"))
            IN  /\ errors + dones = 1
                /\ hist.fatal # "none" => (errors = 1 /\ dones = 0)

\* C3: in a job whose status is done, processed_frames <= total_frames and
\* processed_frames is the number of frame records stored in the frame list,
\* whatever retrieval requests were made meanwhile. (Stated for the jobs none of
\* whose Redis calls raised, which keeps the failure of C1 out of it, and for the
\* states in which no retrieval is between its two deletes.)
C3_DoneCountsMatch ==
    (Status = "done" /\ faults = 0 /\ \A d \in Calls : dl[d].pc # "L64") =>
        /\ int(meta["processed_frames"]) <= int(meta["total_frames"])
        /\ int(meta["processed_frames"]) = Len(frames)

\* Nothing but inference went wrong in the job.
OnlyInferenceFails == hist.fatal = "none" /\ hist.encodeFailed = {} /\ faults = 0

\* C4: when runner.predict raises on any subset of the frames of an N-frame source
\* and nothing else fails, the job ends done with processed_frames = N, and every
\* failing index has its frame record and its frame event, made of the raw frame.
C4_InferenceFailureNonFatal ==
    (Ended /\ OnlyInferenceFails) =>
        LET N == run.frame_idx
        IN  /\ run.pc = "returned"
            /\ Status = "done"
            /\ int(meta["processed_frames"]) = N
            /\ Len(frames) = N
            /\ \A i \in hist.predictFailed :
                  /\ i < N
                  /\ frames[i + 1] = JpgBytes(RawFrame(i))
                  /\ \E k \in 1..Len(published) :
                        published[k] = [type |-> "frame", frame |-> i,
                                        data |-> B64(JpgBytes(RawFrame(i)))]

C4_Witness ==
    /\ run.pc = "returned"
    /\ OnlyInferenceFails
    /\ run.frame_idx = MaxFrames
    /\ hist.predictFailed = {MaxFrames - 1}

\* C5: a job whose source cannot be probed or opened goes from running straight to
\* failed with an error message and publishes an error event (the write of the
\* failed status itself succeeding); it never becomes done, appends no frame and
\* publishes no frame or progress event.
C5_UnreadableSourceFails ==
    hist.fatal \in {"probe", "open"} =>
        /\ "done" \notin {hist.statusWritten[i] : i \in 1..Len(hist.statusWritten)}
        /\ hist.pushed = <<>>
        /\ frames = <<>>
        /\ \A k \in 1..Len(published) : published[k].type = "error"
        /\ run.pc = "returned" =>
              /\ hist.statusWritten = <<"running", "failed">>
              /\ Status = "failed"
              /\ "error" \in DOMAIN meta
              /\ meta["error"] \in {"Cannot open video for metadata", "Cannot open video"}
              /\ published = <<[type |-> "error", message |-> <<meta["error"]>>]>>

C5_Witness ==
    /\ hist.fatal = "open"
    /\ run.pc = "returned"
    /\ Status = "failed"


\* The call read the metadata of a completed job.
SawDone(d) == "status" \in DOMAIN dl[d].meta /\ dl[d].meta["status"] = "done"

\* C6: once a download_job of a completed job has returned its video, a
\* download_job issued afterwards fails with NotFound.
C6_OneShot ==
    \A d, e \in Calls :
        (dl[e].pc # "new" /\ d \in dl[e].after /\ SawDone(d)) =>
            /\ dl[e].pc = "returned"
            /\ dl[e].result = "NotFound"

C6_Witness ==
    \E d, e \in Calls :
        /\ d \in dl[e].after
        /\ SawDone(d)
        /\ Len(dl[d].frames) >= 1
        /\ dl[e].result = "NotFound"

\* C7: download_job answers NotFound exactly when it finds no metadata, whatever
\* the frame list holds, and NoFrames exactly when it finds metadata and an empty
\* frame list; either way the step leaves the cache and the scratch files as they
\* were, and that call never ran the encoder.
C7_LookupFailures ==
    /\ [](\A d \in Calls :
            dl[d].result \in {"NotFound", "NoFrames"} =>
                (dl[d].pc = "returned" /\ dl[d].encoded = <<>>))
    /\ [][\A d \in Calls :
            /\ (dl[d].pc = "new" /\ dl'[d].pc # "new") =>
                  IF MetaExists
                  THEN dl'[d].result = "none"
                  ELSE /\ dl'[d].result = "NotFound"
                       /\ UNCHANGED <<cacheVars, scratch, outVideo>>
            /\ (dl[d].pc = "L23" /\ dl'[d].pc # "L23") =>
                  IF FramesExists
                  THEN dl'[d].result = "none"
                  ELSE /\ dl'[d].result = "NoFrames"
                       /\ UNCHANGED <<cacheVars, scratch, outVideo>>]_vars

C7_Witness ==
    \E d, e \in Calls :
        /\ dl[d].result = "NotFound"
        /\ dl[e].result = "NoFrames"

\* C8: while no expiry or delete has touched the frame list, the list is exactly
\* the frames appended, in append order; a download_job that reads it then gets
\* every appended frame, byte for byte, in capture order.
C8_RoundTrip ==
    /\ ~hist.lostFrames => frames = hist.pushed
    /\ \A d \in Calls :
          (dl[d].pc \notin {"new", "L23"} /\ dl[d].result # "NotFound" /\ dl[d].intact) =>
              /\ dl[d].frames = dl[d].pushed
              /\ \A k \in 1..(Len(dl[d].frames) - 1) :
                    dl[d].frames[k].jpg.idx < dl[d].frames[k + 1].jpg.idx

C8_Witness ==
    \E d \in Calls :
        /\ dl[d].intact
        /\ Len(dl[d].pushed) = MaxFrames
        /\ Len(dl[d].frames) = MaxFrames

\* Every step of the job succeeded and the probe told the number of frames read.
CleanRun ==
    /\ hist.fatal = "none"
    /\ hist.encodeFailed = {}
    /\ hist.predictFailed = {}
    /\ faults = 0
    /\ run.total_frames = run.frame_idx

\* C9: an observer registered before a clean job of N frames starts receives,
\* for i = 1..N in turn, the frame event of frame i and then its progress event,
\* whose pct is i * 100 / N to the nearest hundredth (100.00 for the last), and
\* then one done event whose metrics.total_frames is N; nothing else.
C9_CleanRunStream ==
    \A w \in Sockets :
        (run.pc = "returned" /\ CleanRun /\ Steady(w)) =>
            LET N == run.frame_idx
                got == Events(inbox[w])
            IN  /\ Len(got) = 2 * N + 1
                /\ \A i \in 1..N :
                      LET f == loads(got[2 * i - 1])
                          p == loads(got[2 * i])
                      IN  /\ f = [type |-> "frame", frame |-> i - 1,
                                  data |-> B64(JpgBytes([idx |-> i - 1, annotated |-> TRUE]))]
                          /\ p.type = "progress"
                          /\ p.frame = i
                          /\ p.total_frames = N
                          /\ 2 * (p.pct * N - i * 10000) <= N
                          /\ 2 * (i * 10000 - p.pct * N) <= N
                          /\ i = N => p.pct = 10000
                /\ loads(got[2 * N + 1]).type = "done"
                /\ loads(got[2 * N + 1]).metrics.total_frames = N

C9_Witness ==
    /\ run.pc = "returned"
    /\ CleanRun
    /\ Steady("ws1")
    /\ run.frame_idx = MaxFrames

\* The places right after a write of the metadata and the refresh, if any, that
\* the code makes with it.
AfterMetaWrite == {"L74", "L82", "L112", "L121", "L156", "L170", "L190"}

\* C10: every write of the job metadata (those of status failed too) and every
\* append to the frame list leaves that key with the full expiry window: before
\* the clock moves on, its deadline is REDIS_TTL_SECONDS from now.
C10_EveryWriteRefreshes ==
    /\ (run.pc \in AfterMetaWrite /\ MetaExists /\ hist.metaWriteAt = now) =>
          metaExp = {now + REDIS_TTL_SECONDS}
    /\ (run.pc = "L152" /\ FramesExists /\ hist.framesWriteAt = now) =>
          framesExp = {now + REDIS_TTL_SECONDS}

\* No download_job is between its first and its last step.
NoRetrievalRunning == \A d \in Calls : dl[d].pc \in {"new", "returned"}

\* C11: when a download_job has returned its video or has failed with
\* EncodeFailed, the frame images it wrote to the scratch directory are gone.
C11_ScratchCleaned ==
    (NoRetrievalRunning /\ \E d \in Calls : dl[d].result \in {"OK", "EncodeFailed"}) =>
        DOMAIN scratch = {}

\* C12: a download_job whose encoder fails ends with EncodeFailed and without a
\* video, and that step leaves the metadata hash, the frame list and their
\* deadlines as they were; the frames are deleted only by a call that succeeds.
C12_EncodeFailureKeepsCache ==
    /\ [](\A d \in Calls :
            dl[d].result = "EncodeFailed" =>
                (dl[d].pc = "returned" /\ dl[d].encoded = <<>>))
    /\ [][\A d \in Calls :
            (dl[d].pc = "L57" /\ dl'[d].pc # "L57") =>
                IF dl'[d].result = "EncodeFailed"
                THEN UNCHANGED <<cacheVars, outVideo, hist>>
                ELSE dl'[d].pc = "L63" /\ dl'[d].result = "none"]_vars
    /\ [][(frames # <<>> /\ frames' = <<>>) =>
            \E d \in Calls : dl[d].pc = "L63" /\ dl'[d].pc = "L64"]_vars

\* A retrieval of a completed job succeeds after an earlier one failed in the
\* encoder.
C12_Witness ==
    /\ dl["d1"].result = "EncodeFailed"
    /\ SawDone("d1")
    /\ dl["d2"].result = "OK"
    /\ dl["d2"].encoded = dl["d1"].frames

\* C13: the registry never holds a job id with an empty set of observers, and
\* unregistering the last observer of a job removes the job's entry;
\* register_ws of an observer already registered gives the registry back
\* unchanged; unregister_ws of an observer or a job id that is not registered
\* gives the registry back unchanged.
C13_RegistryWellFormed ==
    /\ \A j \in DOMAIN WS_REGISTRY : WS_REGISTRY[j] # {}
    /\ \A j \in JobIds, w \in Sockets :
          /\ w \in Conns(j) => register_ws(j, w) = WS_REGISTRY
          /\ w \notin Conns(j) => unregister_ws(j, w) = WS_REGISTRY
          /\ Conns(j) = {w} => j \notin DOMAIN unregister_ws(j, w)
          /\ (w \in Conns(j) /\ Conns(j) # {w}) =>
                /\ j \in DOMAIN unregister_ws(j, w)
                /\ unregister_ws(j, w)[j] = Conns(j) \ {w}

\* Two observers of one job have both disconnected and the job has no entry.
C13_Witness ==
    \E v, w \in Sockets :
        /\ v # w
        /\ ws[v].pc = "closed"
        /\ ws[w].pc = "closed"
        /\ ws[v].job_id = ws[w].job_id
        /\ ws[v].job_id \notin DOMAIN WS_REGISTRY

\* The texts of all the events published so far.
PublishedTexts == [k \in 1..Len(published) |-> dumps(published[k])]

\* C14: a send that raises for one observer is swallowed: an observer that
\* watches the whole job has received every event of every publish that is
\* through with it, whatever became of the other observers; the end of a publish
\* leaves the job's task on its way, not in its exception handler; and no step
\* of a publish changes the registry.
C14_DeliveryFailureSwallowed ==
    /\ [](\A w \in Sockets :
            (Steady(w) /\ ~(pub.active /\ w \in pub.conns)) =>
                Events(inbox[w]) = PublishedTexts)
    /\ [][(published' # published \/ pub' # pub) =>
            /\ UNCHANGED WS_REGISTRY
            /\ run'.pc \notin {"L169", "raised"}]_vars

\* ws1 died while registered and missed both events of a frame, ws2 has them
\* all, and the job's task has gone on to its next frame.
C14_Witness ==
    /\ run.pc = "L131"
    /\ Steady("ws2")
    /\ Len(published) = 2
    /\ Events(inbox["ws1"]) = <<>>
    /\ Events(inbox["ws2"]) = PublishedTexts
    /\ ws["ws1"].since = 0
    /\ ~ws["ws1"].open
    /\ "ws1" \in Conns(JOB)
    /\ Len(Events(inbox["ws1"])) < Len(published)

\* C15: every job comes to a terminal status, done or failed, when its task is
\* scheduled fairly: with no observer, with an observer that disconnects during
\* the job, and with an observer to which a send never completes.
C15_JobTerminates == <>(Status \in {"done", "failed"})

\* C16: an event published for a job id that has no registered observer is a
\* no-op: the call returns at once without raising, no client receives
\* anything, and the registry stays as it was, without an entry for the job id.
C16_PublishNoObservers ==
    [][(published' # published /\ Conns(JOB) = {}) =>
          /\ UNCHANGED <<WS_REGISTRY, inbox, pub>>
          /\ JOB \notin DOMAIN WS_REGISTRY'
          /\ ~pub'.active
          /\ run'.pc # run.pc
          /\ run'.pc \notin {"L169", "raised"}]_vars

\* The frame event of frame 0 was published while nobody listened to the job
\* and ws2 listened to another job; the task has gone on to the progress event.
C16_Witness ==
    /\ Len(published) = 1
    /\ published[1].type = "frame"
    /\ run.pc = "L159"
    /\ ws["ws1"].pc = "new"
    /\ ws["ws2"].pc = "L16"
    /\ ws["ws2"].job_id # JOB
    /\ inbox["ws2"] = <<INFO_CONNECTED>>
    /\ DOMAIN WS_REGISTRY = {ws["ws2"].job_id}

\* The stage average is the mean of the samples, in thousandths of a
\* millisecond, to the nearest one; 0 for no sample.
IsMeanOf(avg, t) ==
    IF t = <<>> THEN avg = 0
    ELSE /\ 2 * (avg * Len(t) - Sum(t) * 1000000) <= Len(t)
         /\ 2 * (Sum(t) * 1000000 - avg * Len(t)) <= Len(t)

\* C17: compute_metrics divides by nothing that is zero: for zero processed
\* frames avg_fps and the three stage averages are 0; for end_ts - start_ts <= 0
\* avg_fps is 0; and each stage average is 0 for an empty timing list and the
\* mean of the samples in milliseconds otherwise.
C17_MetricsNeverDivide ==
    run.pc = "L178" =>
        LET m == run.metrics
        IN  /\ run.processed = 0 =>
                  /\ m.avg_fps = 0
                  /\ m.avg_preprocess_ms = 0
                  /\ m.avg_infer_ms = 0
                  /\ m.avg_postprocess_ms = 0
            /\ run.end_ts - run.start_ts <= 0 => m.avg_fps = 0
            /\ IsMeanOf(m.avg_preprocess_ms, run.t_pre)
            /\ IsMeanOf(m.avg_infer_ms, run.t_inf)
            /\ IsMeanOf(m.avg_postprocess_ms, run.t_post)

\* C18: the metadata hash holds an error field exactly when its status is
\* failed, and the metrics exactly when its status is done; never status done
\* with an error field.
C18_ErrorIffFailed ==
    MetaExists =>
        /\ ("error" \in DOMAIN meta) <=> (Status = "failed")
        /\ (DOMAIN NoMetrics \subseteq DOMAIN meta) <=> (Status = "done")

\* The capture indices, in order, of the frames read that did not fail to encode.
Kept == SelectSeq([k \in 1..run.pos |-> k - 1], LAMBDA i : i \notin hist.encodeFailed)

\* C19: a frame that fails to encode is skipped and nothing else: that step
\* advances frame_idx by one, appends no record and publishes nothing, and the
\* job (nothing else failing) ends done with the metadata counting the frames
\* stored; the records and the frame events are those of the other frames, each
\* under its capture index i, and the progress event of frame i says i + 1
\* frames and the percentage that i + 1 is of the probed total.
C19_EncodeFailureSkipsFrame ==
    /\ [][(run.pc = "L144" /\ run'.pc = "L131") =>
            /\ run'.frame_idx = run.frame_idx + 1
            /\ run'.processed = run.processed
            /\ UNCHANGED <<cacheVars, published, pub, inbox>>]_vars
    /\ []((run.pc = "returned" /\ hist.fatal = "none" /\ faults = 0) =>
            LET total == run.total_frames
                frameEvents == SelectSeq(published, LAMBDA e : e.type = "frame")
                progressEvents == SelectSeq(published, LAMBDA e : e.type = "progress")
            IN  /\ Status = "done"
                /\ run.frame_idx = run.pos
                /\ int(meta["processed_frames"]) = Len(Kept)
                /\ Len(frames) = Len(Kept)
                /\ Len(frameEvents) = Len(Kept)
                /\ Len(progressEvents) = Len(Kept)
                /\ \A k \in 1..Len(Kept) :
                      /\ frames[k].jpg.idx = Kept[k]
                      /\ frameEvents[k].frame = Kept[k]
                      /\ frameEvents[k].data = B64(frames[k])
                      /\ progressEvents[k].frame = Kept[k] + 1
                      /\ progressEvents[k].total_frames = total
                      /\ IF total = 0 THEN progressEvents[k].pct = 0
                         ELSE /\ 2 * (progressEvents[k].pct * total - (Kept[k] + 1) * 10000)
                                    <= total
                              /\ 2 * ((Kept[k] + 1) * 10000 - progressEvents[k].pct * total)
                                    <= total)

\* Frame 0 of a source of MaxFrames frames failed to encode, the others were
\* stored, and the job is done.
C19_Witness ==
    /\ run.pc = "returned"
    /\ hist.fatal = "none"
    /\ faults = 0
    /\ run.pos = MaxFrames
    /\ run.total_frames = MaxFrames
    /\ hist.encodeFailed = {0}
    /\ Len(frames) = MaxFrames - 1
    /\ Status = "done"

\* C20: a publish serves the snapshot of the registry taken when it began,
\* whatever registers or unregisters meanwhile. So what an observer has received
\* of the job is, in order and without a gap, the events published after it
\* registered: nothing published before, nothing of a publish already under way
\* when it registered; an observer of another job id receives none; a live
\* observer of the job misses only the event of the publish that has not reached
\* it yet; a step that changes the registry leaves the publish as it is, and no
\* publish ends in an exception.
C20_SnapshotPublish ==
    /\ [](\A w \in Sockets :
            LET got == Events(inbox[w])
                since == ws[w].since
                pending == IF pub.active /\ w \in pub.conns THEN 1 ELSE 0
            IN  /\ since + Len(got) <= Len(published)
                /\ got = SubSeq(PublishedTexts, since + 1, since + Len(got))
                /\ ws[w].job_id # JOB => got = <<>>
                /\ (ws[w].pc \in {"L13", "L16"} /\ ws[w].job_id = JOB /\ ws[w].open) =>
                      since + Len(got) + pending = Len(published))
    /\ [][WS_REGISTRY' # WS_REGISTRY => UNCHANGED <<pub, run, published, inbox>>]_vars
    /\ [][pub' # pub => run'.pc \notin {"L169", "raised"}]_vars

\* A publish is under way for ws1, which has unregistered since it began, while
\* ws2 registered for the job after it began and has received nothing.
C20_Witness ==
    /\ pub.active
    /\ pub.conns = {"ws1"}
    /\ "ws1" \notin Conns(JOB)
    /\ "ws2" \in Conns(JOB)
    /\ ws["ws2"].since = Len(published)
    /\ inbox["ws2"] = <<>>


\* C21: once a download_job has read frames of the job, run_inference_job
\* appends no frame and writes no metadata for it any more: from then on the
\* frame list and the metadata hash change only by being deleted.
C21_NoWriteAfterRead ==
    [][(\E d \in Calls : dl[d].frames # <<>>) =>
          /\ frames' = frames \/ frames' = <<>>
          /\ meta' = meta \/ meta' = NoKey]_vars

\* C22: of the download_job calls made for a completed job, overlapping or not,
\* at most one returns the video.
C22_OneArtifact ==
    Cardinality({d \in Calls : SawDone(d) /\ dl[d].result = "OK"}) <= 1

\* C23: the images a download_job call hands to the encoder are the frames that
\* call read from the cache, all of them and no other, in append order; files
\* that another retrieval of the job left in the scratch directory are not
\* among them.
C23_EncodesWhatItRead ==
    \A d \in Calls :
        dl[d].pc \in {"L63", "L64", "returned"} /\ dl[d].result \in {"none", "OK"} =>
            dl[d].encoded = dl[d].frames

\* C24: the processed_frames field of the metadata hash never goes down from
\* one write of the job to the next, the write at completion included,
\* whichever frames fail to encode (no Redis call raising).
C24_ProcessedNeverDecreases ==
    [][("processed_frames" \in DOMAIN meta /\ "processed_frames" \in DOMAIN meta'
          /\ faults' = 0) =>
            int(meta'["processed_frames"]) >= int(meta["processed_frames"])]_vars

====
